---- MODULE Spec2Model ----
(***************************************************************************)
(* A model of the document ingestion and retrieval core of my-llm          *)
(* (src/document_processor.py, class DocumentProcessor) and of the chat    *)
(* layer above it (src/llm_system.py, class LocalLLM).                     *)
(*                                                                         *)
(* The specifications of the module:                                       *)
(*   ChunkSpec      the loop of chunk_text, the test and the body of an    *)
(*                  iteration as steps, on every text / chunk_size /       *)
(*                  overlap of a bounded universe;                         *)
(*   ChunkFairSpec  the same loop, which the interpreter keeps running,    *)
(*                  on the texts of letters and full stops;                *)
(*   WideChunkSpec  the same loop on longer texts and larger windows;      *)
(*   Spec           the store: process_document, get_document_stats and    *)
(*                  clear_knowledge_base as atomic calls of a single       *)
(*                  synchronous caller;                                    *)
(*   SearchSpec     the store with search_knowledge, on fewer files;       *)
(*   StepSpec       process_document, clear_knowledge_base and             *)
(*                  get_document_stats statement by statement, a writer    *)
(*                  and a reader on their own connections;                 *)
(*   ChatSpec       LocalLLM: generate_response, the conversation history  *)
(*                  and the calls it passes on to the store;               *)
(*   RaceSpec       process_document on two threads of the interface.      *)
(*                                                                         *)
(* Strings are sequences of one-character strings; positions in the        *)
(* operators below are Python's 0-based positions.                         *)
(***************************************************************************)
EXTENDS Integers, Sequences, FiniteSets, TLC

\* ------------------------------------------------------------------ bounds
\* Longest text given to chunk_text in ChunkSpec.
MaxTextLen == 5
\* Most document rows ever inserted in one run of Spec (ids are not reused).
MaxDocId == 2
\* Largest chunk_size given to chunk_text in ChunkSpec.
MaxChunkSize == 4
\* process_document calls chunk_text(text) with the defaults chunk_size=1000,
\* overlap=200 (line 155).  The store model scales the window down to a few
\* characters so that multi-chunk documents fit its small texts; the scaled
\* pair keeps what the loop depends on: 2 <= overlap < chunk_size.
ScaledChunkSize == 4
ScaledOverlap == 2
\* Most turns the conversation history takes in ChatSpec.
MaxTurns == 2
\* Longest text and largest chunk_size given to chunk_text in WideChunkSpec.
WideTextLen == 8
WideChunkSize == 7

\* --------------------------------------------------------------- characters
Letters == {"a", "b"}
\* the characters str.strip() removes and str.split() splits on
Whitespace == {" ", "\n", "\t"}
\* the characters chunk_text looks for with rfind (lines 180-182)
SentenceEnd == {".", "!", "?"}
\* the characters of the texts given to chunk_text in ChunkSpec
Alphabet == Letters \cup {" ", ".", "?"}

Max(S) == CHOOSE x \in S : \A y \in S : y <= x
Min(S) == CHOOSE x \in S : \A y \in S : x <= y

\* ----------------------------------------------------- Python str operations
\* A slice bound as Python normalises it: a negative bound counts from the
\* end of the string, and the result is clipped to 0..len.
SliceIndex(i, n) == IF i < 0 THEN Max({i + n, 0}) ELSE Min({i, n})

\* text[i:j]
Slice(text, i, j) ==
  LET a == SliceIndex(i, Len(text))
      b == SliceIndex(j, Len(text))
  IN  IF a >= b THEN << >> ELSE SubSeq(text, a + 1, b)

\* text.rfind(ch, i, j) for a one-character ch: the highest position p with
\* a <= p < b and text[p] = ch, where a, b are the normalised bounds; -1 if none.
RFind(text, ch, i, j) ==
  LET a == SliceIndex(i, Len(text))
      b == SliceIndex(j, Len(text))
      hits == {p \in a..(b - 1) : text[p + 1] = ch}
  IN  IF hits = {} THEN -1 ELSE Max(hits)

\* s.strip()
Strip(s) ==
  LET keep == {p \in 1..Len(s) : s[p] \notin Whitespace}
  IN  IF keep = {} THEN << >> ELSE SubSeq(s, Min(keep), Max(keep))

\* ------------------------------------------------------------- chunk_text
\* lines 179-183: the last '.', '!' or '?' of the window
LastSentence(text, start, end) ==
  Max({RFind(text, ".", start, end), RFind(text, "!", start, end),
       RFind(text, "?", start, end)})

\* lines 174-186: where the window that starts at start ends
WindowEnd(text, chunk_size, start) ==
  LET end == start + chunk_size
  IN  IF end < Len(text) /\ LastSentence(text, start, end) > start
        THEN LastSentence(text, start, end) + 1
        ELSE end

\* line 188
ChunkAt(text, start, end) == Strip(Slice(text, start, end))

\* line 192 without the overlap: start = end
NextStartWithoutOverlap(end, overlap) == end

\* line 192
NextStart(end, overlap) == end - overlap


\* ------------------------------------------------------------------- state
VARIABLES
  \* chunk_text, one activation (ChunkSpec)
  ct_text,        \* parameter text
  ct_chunk_size,  \* parameter chunk_size
  ct_overlap,     \* parameter overlap
  ct_start,       \* local start
  ct_end,         \* local end, as of the last iteration
  ct_chunks,      \* local chunks, the list that is returned
  ct_iter,        \* number of loop iterations made so far (not in the code)
  ct_pc,          \* "call", "loop" (at the test of line 173), "body" or "done"
  \* DocumentProcessor and its databases (Spec)
  PyPDF2,         \* module global: FALSE when the import failed (None)
  Document,       \* module global: FALSE when the import failed (None)
  chroma_client,  \* self.chroma_client: FALSE when None
  collection_live,\* whether self.collection names a collection that exists
  collection,     \* entries of the Chroma collection "document_chunks"
  documents,      \* rows of table documents
  chunks,         \* rows of table chunks
  seq_documents,  \* sqlite_sequence of documents (AUTOINCREMENT)
  seq_chunks,     \* sqlite_sequence of chunks (AUTOINCREMENT)
  hung,           \* a call that never returns is in progress
  forgotten,      \* the document rows resets have deleted (not in the code)
  ret,            \* the last completed call: what was called and its result
  \* calls in progress on their own threads and connections (StepSpec)
  wr,             \* the process_document or clear_knowledge_base call
  tx,             \* what the open transaction of that call has written
  rd,             \* the get_document_stats call
  \* process_document calls of the GUI's worker threads (RaceSpec)
  workers,        \* the call of each thread, with its open transaction
  \* LocalLLM (ChatSpec)
  conversation_history  \* self.conversation_history

ct_vars == <<ct_text, ct_chunk_size, ct_overlap, ct_start, ct_end, ct_chunks,
             ct_iter, ct_pc>>

db_vars == <<PyPDF2, Document, chroma_client, collection_live, collection,
             documents, chunks, seq_documents, seq_chunks, hung, forgotten,
             ret>>

th_vars == <<wr, tx, rd, workers>>

llm_vars == <<conversation_history>>

vars == <<ct_vars, db_vars, th_vars, llm_vars>>

\* The value of ret before any call has completed, and of wr and rd when no
\* call is in progress.
NoCall == [op |-> "none"]

\* The value of tx when no transaction is open.
NoTx == [open |-> FALSE]

\* gui_interface.py line 287: the threads that two clicks on the button
\* start
Workers == {1, 2}

\* No call is in progress on another thread.
NoThreads ==
  /\ wr = NoCall
  /\ tx = NoTx
  /\ rd = NoCall
  /\ workers = [w \in Workers |-> NoCall]

\* llm_system.py line 32
NoConversation == conversation_history = << >>

\* lines 14-28, 37-102: the state the imports and __init__ leave on a new,
\* empty db_path, with PyPDF2 and python-docx installed (a missing library
\* makes every extraction of its format raise, as an invalid container
\* does).  setup_vector_db sets chroma_client to None when chromadb is
\* missing or the client cannot be created, and the collection exists
\* otherwise.
DbInit ==
  /\ PyPDF2 = TRUE
  /\ Document = TRUE
  /\ chroma_client \in BOOLEAN
  /\ collection_live = chroma_client
  /\ collection = {}
  /\ documents = {}
  /\ chunks = {}
  /\ seq_documents = 0
  /\ seq_chunks = 0
  /\ hung = FALSE
  /\ forgotten = {}
  /\ ret = NoCall
  /\ NoThreads
  /\ NoConversation

\* The store as ChunkSpec holds it: chunk_text touches none of it.
DbIdle ==
  /\ PyPDF2 = TRUE
  /\ Document = TRUE
  /\ chroma_client = FALSE
  /\ collection_live = FALSE
  /\ collection = {}
  /\ documents = {}
  /\ chunks = {}
  /\ seq_documents = 0
  /\ seq_chunks = 0
  /\ hung = FALSE
  /\ forgotten = {}
  /\ ret = NoCall
  /\ NoThreads
  /\ NoConversation

\* ------------------------------------------------- chunk_text as a machine
Texts == UNION {[1..n -> Alphabet] : n \in 0..MaxTextLen}

\* A loop that never ends appends to chunks for ever.  The model stops
\* counting and recording after MaxIter iterations, which no run that ends
\* within the text bound needs, so that such a run closes into a cycle.
MaxIter == MaxTextLen + 2

\* The same for the longer texts of WideChunkSpec: a run that ends has a
\* start of its own in every iteration, -1 or a position of the text.
IterCap == IF Len(ct_text) <= MaxTextLen THEN MaxIter ELSE Len(ct_text) + 2

ChunkCall(texts) ==
  /\ ct_text \in texts
  /\ ct_chunk_size \in 1..MaxChunkSize
  /\ ct_overlap \in 0..(ct_chunk_size - 1)
  /\ ct_start = 0
  /\ ct_end = 0
  /\ ct_chunks = << >>
  /\ ct_iter = 0
  /\ ct_pc = "call"
  /\ DbIdle

ChunkInit == ChunkCall(Texts)

\* lines 167-168
ChunkShort ==
  /\ ct_pc = "call"
  /\ Len(ct_text) <= ct_chunk_size
  /\ ct_chunks' = <<ct_text>>
  /\ ct_pc' = "done"
  /\ UNCHANGED <<ct_text, ct_chunk_size, ct_overlap, ct_start, ct_end, ct_iter>>
  /\ UNCHANGED <<db_vars, th_vars, llm_vars>>

\* lines 170-171
ChunkEnter ==
  /\ ct_pc = "call"
  /\ ~(Len(ct_text) <= ct_chunk_size)
  /\ ct_chunks' = << >>
  /\ ct_start' = 0
  /\ ct_pc' = "loop"
  /\ UNCHANGED <<ct_text, ct_chunk_size, ct_overlap, ct_end, ct_iter>>
  /\ UNCHANGED <<db_vars, th_vars, llm_vars>>

\* line 173, the test holds
ChunkTest ==
  /\ ct_pc = "loop"
  /\ ct_start < Len(ct_text)
  /\ ct_pc' = "body"
  /\ UNCHANGED <<ct_text, ct_chunk_size, ct_overlap, ct_start, ct_end,
                 ct_chunks, ct_iter>>
  /\ UNCHANGED <<db_vars, th_vars, llm_vars>>

\* lines 174-192, the body of one iteration
ChunkIteration ==
  /\ ct_pc = "body"
  /\ LET end == WindowEnd(ct_text, ct_chunk_size, ct_start)
         chunk == ChunkAt(ct_text, ct_start, end)
     IN  /\ ct_end' = end
         /\ ct_chunks' = IF chunk # << >> /\ ct_iter < IterCap
                           THEN Append(ct_chunks, chunk)
                           ELSE ct_chunks
         /\ ct_start' = NextStart(end, ct_overlap)
  /\ ct_iter' = IF ct_iter < IterCap THEN ct_iter + 1 ELSE ct_iter
  /\ ct_pc' = "loop"
  /\ UNCHANGED <<ct_text, ct_chunk_size, ct_overlap>>
  /\ UNCHANGED <<db_vars, th_vars, llm_vars>>

\* line 173, the test fails; line 194
ChunkReturn ==
  /\ ct_pc = "loop"
  /\ ~(ct_start < Len(ct_text))
  /\ ct_pc' = "done"
  /\ UNCHANGED <<ct_text, ct_chunk_size, ct_overlap, ct_start, ct_end,
                 ct_chunks, ct_iter>>
  /\ UNCHANGED <<db_vars, th_vars, llm_vars>>

ChunkNext ==
  ChunkShort \/ ChunkEnter \/ ChunkTest \/ ChunkIteration \/ ChunkReturn

ChunkSpec == ChunkInit /\ [][ChunkNext]_vars

\* The texts and sizes of WideChunkSpec: a letter and a sentence end, in
\* texts long enough for a window of several overlaps.
WideTexts == UNION {[1..n -> {"a", "."}] : n \in WideChunkSize..WideTextLen}

WideChunkInit ==
  /\ ct_text \in WideTexts
  /\ ct_chunk_size \in (WideChunkSize - 1)..WideChunkSize
  /\ ct_overlap \in 0..(ct_chunk_size - 1)
  /\ ct_start = 0
  /\ ct_end = 0
  /\ ct_chunks = << >>
  /\ ct_iter = 0
  /\ ct_pc = "call"
  /\ DbIdle

WideChunkSpec == WideChunkInit /\ [][ChunkNext]_vars

\* The texts of ChunkFairSpec: a letter and a sentence end.
FairTexts == UNION {[1..n -> {"a", "."}] : n \in 0..MaxTextLen}

ChunkFairInit == ChunkCall(FairTexts)

\* The interpreter keeps executing the loop: a step that can be taken is taken.
ChunkFairSpec == ChunkFairInit /\ [][ChunkNext]_vars /\ WF_vars(ChunkNext)


\* --------------------------------------------- chunk_text as one evaluation
\* lines 173-194 run to the end.  The next start depends on start alone, so a
\* start that comes back means the loop never ends: returns is FALSE then.
RECURSIVE ChunkLoop(_, _, _, _, _, _)
ChunkLoop(text, chunk_size, overlap, start, acc, seen) ==
  IF ~(start < Len(text)) THEN [returns |-> TRUE, chunks |-> acc]
  ELSE IF start \in seen THEN [returns |-> FALSE, chunks |-> acc]
  ELSE LET end == WindowEnd(text, chunk_size, start)
           chunk == ChunkAt(text, start, end)
       IN  ChunkLoop(text, chunk_size, overlap, NextStart(end, overlap),
                     IF chunk # << >> THEN Append(acc, chunk) ELSE acc,
                     seen \cup {start})

RECURSIVE WindowLoop(_, _, _, _, _, _)
\* lines 173-192: the windows text[start:end] of the chunks that line 190
\* appends, each as the positions <<a, b>> its slice takes, a <= p < b
WindowLoop(text, chunk_size, overlap, start, acc, seen) ==
  IF ~(start < Len(text)) \/ start \in seen THEN acc
  ELSE LET end == WindowEnd(text, chunk_size, start)
           a == SliceIndex(start, Len(text))
           b == SliceIndex(end, Len(text))
       IN  WindowLoop(text, chunk_size, overlap, NextStart(end, overlap),
                      IF ChunkAt(text, start, end) # << >>
                        THEN Append(acc, <<a, b>>) ELSE acc,
                      seen \cup {start})

\* lines 167-192: the windows of the chunks chunk_text returns
ChunkWindows(text, chunk_size, overlap) ==
  IF Len(text) <= chunk_size THEN << <<0, Len(text)>> >>
  ELSE WindowLoop(text, chunk_size, overlap, 0, << >>, {})

\* lines 155-194
chunk_text(text, chunk_size, overlap) ==
  IF Len(text) <= chunk_size
    THEN [returns |-> TRUE, chunks |-> <<text>>]
    ELSE ChunkLoop(text, chunk_size, overlap, 0, << >>, {})

\* ------------------------------------------------------------------ files
\* What a file holds: the characters read from it as text (raw), and, when
\* it is a PDF or DOCX container, the texts of its pages or paragraphs.
BytesShort == [kind |-> "plain", raw |-> <<" ", "a", "b", ".">>, parts |-> << >>]
BytesLong  == [kind |-> "plain", raw |-> <<"a", "b", "a", "b", " ", "a">>,
               parts |-> << >>]
BytesBlank == [kind |-> "plain", raw |-> <<" ", "\n">>, parts |-> << >>]
BytesLoop  == [kind |-> "plain", raw |-> <<"a", ".", "b", "b", "b", "b">>,
               parts |-> << >>]
BytesPdf   == [kind |-> "pdf", raw |-> <<"%", "P", "D", "F">>,
               parts |-> << <<"a", "b">>, <<"b", ".">> >>]

SuffixTxt  == <<".", "t", "x", "t">>
SuffixTXT  == <<".", "T", "X", "T">>
SuffixPdf  == <<".", "p", "d", "f">>
SuffixDocx == <<".", "d", "o", "c", "x">>
SuffixMd   == <<".", "m", "d">>

File(stem, suffix, exists, bytes) ==
  [stem |-> stem, suffix |-> suffix, exists |-> exists, bytes |-> bytes]

\* The files the caller may submit.
Files ==
  { File("x", SuffixTxt, TRUE, BytesShort),
    File("y", SuffixMd, TRUE, BytesShort),
    File("y", SuffixDocx, TRUE, BytesShort),
    File("y", SuffixTXT, TRUE, BytesLong),
    File("x", SuffixTxt, TRUE, BytesBlank),
    File("x", SuffixTxt, TRUE, BytesLoop),
    File("x", SuffixPdf, TRUE, BytesPdf),
    File("x", SuffixTxt, FALSE, BytesShort) }

\* str.lower() on the characters that occur in suffixes and queries
PyLowerChar(c) ==
  CASE c = "A" -> "a" [] c = "B" -> "b" [] c = "T" -> "t" [] c = "X" -> "x"
    [] c = "É" -> "é" [] OTHER -> c
PyLower(s) == [i \in 1..Len(s) |-> PyLowerChar(s[i])]

\* line 215: os.path.basename(file_path)
Basename(f) == <<f.stem, f.suffix>>

\* lines 104-110: the MD5 digest of the file's bytes.  The digest is a value
\* the bytes determine; two different contents with one digest (an MD5
\* collision) are outside the model.
calculate_file_hash(f) == <<"md5", f.bytes>>

RECURSIVE JoinLines(_)
\* text += part + "\n" for every page or paragraph (lines 121-122, 137-138)
JoinLines(parts) ==
  IF parts = << >> THEN << >>
  ELSE Head(parts) \o <<"\n">> \o JoinLines(Tail(parts))

\* lines 112-127
extract_text_from_pdf(f) ==
  [raises |-> ~PyPDF2 \/ f.bytes.kind # "pdf",
   text |-> Strip(JoinLines(f.bytes.parts))]

\* lines 129-143
extract_text_from_docx(f) ==
  [raises |-> ~Document \/ f.bytes.kind # "docx",
   text |-> Strip(JoinLines(f.bytes.parts))]

\* lines 145-153: UTF-8, and Latin-1 when that fails; raw is what is decoded
extract_text_from_txt(f) == [raises |-> FALSE, text |-> Strip(f.bytes.raw)]


\* ExtractText when a suffix that is none of the three is read as plain text
ExtractTextAsPlain(f) ==
  LET file_ext == PyLower(f.suffix)
  IN  IF file_ext = SuffixPdf
        THEN [supported |-> TRUE] @@ extract_text_from_pdf(f)
      ELSE IF file_ext = SuffixDocx
        THEN [supported |-> TRUE] @@ extract_text_from_docx(f)
      ELSE [supported |-> TRUE] @@ extract_text_from_txt(f)

\* lines 216, 233-242: the extractor the lower-cased suffix selects
ExtractText(f) ==
  LET file_ext == PyLower(f.suffix)
  IN  IF file_ext = SuffixPdf
        THEN [supported |-> TRUE] @@ extract_text_from_pdf(f)
      ELSE IF file_ext = SuffixDocx
        THEN [supported |-> TRUE] @@ extract_text_from_docx(f)
      ELSE IF file_ext = SuffixTxt
        THEN [supported |-> TRUE] @@ extract_text_from_txt(f)
      ELSE [supported |-> FALSE, raises |-> FALSE, text |-> << >>]

\* ------------------------------------------------------ progress callbacks
\* progress_callback is None (given = FALSE) or a function of the caller's,
\* which raises on its raises_at-th invocation.  A function that returns
\* from all three invocations leaves the call as None does (the callback
\* shares no state with the processor), and None stands for it too.
Callbacks ==
  {[given |-> FALSE, raises_at |-> 0]}
    \cup {[given |-> TRUE, raises_at |-> k] : k \in 1..3}

\* lines 229-230, 249-250, 272-273: the k-th invocation raises
CallbackRaises(cb, k) == cb.given /\ cb.raises_at = k

\* ------------------------------------------------------------- the tables
\* ExistingDocument when the SELECT finds no row
NoExistingDocument(file_hash) == {}

\* lines 221-222: SELECT id FROM documents WHERE file_hash = ?
ExistingDocument(file_hash) == {d \in documents : d.file_hash = file_hash}

\* line 61: file_hash TEXT UNIQUE: the INSERT of lines 256-259 raises
\* IntegrityError when a row holds the digest already
UniqueViolation(file_hash) == \E d \in documents : d.file_hash = file_hash

\* AutoIncrement for a plain INTEGER PRIMARY KEY: one more than the largest
\* id in the table, and 1 in an empty table
RowidAfterLargest(seq, rows) ==
  IF rows = {} THEN 1 ELSE Max({r.id : r \in rows}) + 1

\* line 59, INTEGER PRIMARY KEY AUTOINCREMENT: one more than the largest id
\* the table has ever held, which sqlite_sequence keeps through every DELETE
AutoIncrement(seq, rows) == seq + 1

\* lines 256-259, with file_type the lower-cased suffix and the id of line 59
DocumentRow(id, f, chunk_count) ==
  [id |-> id, filename |-> Basename(f), file_hash |-> calculate_file_hash(f),
   file_type |-> PyLower(f.suffix), chunk_count |-> chunk_count]

\* ChunkRows when the index counts from 1
ChunkRowsFromOne(document_id, first_id, list) ==
  {[id |-> first_id + i, document_id |-> document_id, chunk_index |-> i + 1,
    content |-> list[i + 1]] : i \in 0..(Len(list) - 1)}

\* lines 264-268: one row per chunk, chunk_index from enumerate()
ChunkRows(document_id, first_id, list) ==
  {[id |-> first_id + i, document_id |-> document_id, chunk_index |-> i,
    content |-> list[i + 1]] : i \in 0..(Len(list) - 1)}

Digits == <<"0", "1", "2", "3", "4", "5", "6", "7", "8", "9">>

RECURSIVE Decimal(_)
\* str(n) of an integer n >= 0, as an f-string formats it
Decimal(n) ==
  IF n < Len(Digits) THEN <<Digits[n + 1]>>
  ELSE Decimal(n \div Len(Digits)) \o <<Digits[(n % Len(Digits)) + 1]>>

\* line 278: f"{document_id}_{i}"
ChunkKey(document_id, i) == Decimal(document_id) \o <<"_">> \o Decimal(i)

\* lines 278-292: ids, documents, metadatas
IndexEntries(document_id, f, list) ==
  {[id |-> ChunkKey(document_id, i), document |-> list[i + 1],
    metadata |-> [document_id |-> document_id, filename |-> Basename(f),
                  chunk_index |-> i]] : i \in 0..(Len(list) - 1)}

\* NoText when an empty text is let through
NeverNoText(text) == FALSE

\* line 244: not text.strip()
NoText(text) == Strip(text) = << >>

\* What a completed call leaves in ret.  log is the diagnostic it logged.
Returned(op, arg, value, log) ==
  [op |-> op, arg |-> arg, value |-> value, log |-> log]

\* ------------------------------------------------------- process_document
\* lines 196-302.  add_raises: collection.add raises (lines 288-294).
ProcessDocument(f, cb, add_raises) ==
  /\ ~hung
  /\ LET file_hash == calculate_file_hash(f)
         ex == ExtractText(f)
         ct == chunk_text(ex.text, ScaledChunkSize, ScaledOverlap)
         document_id == AutoIncrement(seq_documents, documents)
         Result(value, log) ==
           ret' = Returned("process_document", f, value, log)
         Untouched ==
           UNCHANGED <<documents, chunks, seq_documents, seq_chunks,
                       collection, hung>>
     IN  \* lines 209-211
         IF ~f.exists THEN Result(FALSE, "not_found") /\ Untouched
         \* lines 219-227
         ELSE IF ExistingDocument(file_hash) # {}
           THEN Result(TRUE, "already") /\ Untouched
         \* lines 229-230; an exception ends in lines 300-302
         ELSE IF CallbackRaises(cb, 1) THEN Result(FALSE, "error") /\ Untouched
         \* lines 239-242
         ELSE IF ~ex.supported THEN Result(FALSE, "unsupported") /\ Untouched
         \* lines 233-238, 300-302
         ELSE IF ex.raises THEN Result(FALSE, "error") /\ Untouched
         \* lines 244-247
         ELSE IF NoText(ex.text)
           THEN Result(FALSE, "no_text") /\ Untouched
         \* lines 249-250
         ELSE IF CallbackRaises(cb, 2) THEN Result(FALSE, "error") /\ Untouched
         \* line 253: a chunk_text that never returns
         ELSE IF ~ct.returns
           THEN /\ hung' = TRUE
                /\ UNCHANGED <<documents, chunks, seq_documents, seq_chunks,
                               collection, ret>>
         \* lines 256-259 under the UNIQUE constraint of line 61
         ELSE IF UniqueViolation(file_hash)
           THEN Result(FALSE, "error") /\ Untouched
         ELSE
           /\ seq_documents < MaxDocId
           \* lines 256-270
           /\ documents' = documents
                \cup {DocumentRow(document_id, f, Len(ct.chunks))}
           /\ chunks' = chunks
                \cup ChunkRows(document_id, seq_chunks + 1, ct.chunks)
           /\ seq_documents' = document_id
           /\ seq_chunks' = seq_chunks + Len(ct.chunks)
           /\ hung' = hung
           \* lines 272-273: the rows are committed when this raises
           /\ IF CallbackRaises(cb, 3)
                THEN Result(FALSE, "error") /\ collection' = collection
                ELSE /\ Result(TRUE, "ok")
                     \* lines 276-294
                     /\ collection' =
                          IF /\ chroma_client
                             /\ collection_live
                             /\ ~add_raises
                             /\ \A e \in IndexEntries(document_id, f, ct.chunks) :
                                  \A c \in collection : c.id # e.id
                            THEN collection
                                   \cup IndexEntries(document_id, f, ct.chunks)
                            ELSE collection
  /\ UNCHANGED <<PyPDF2, Document, chroma_client, collection_live, forgotten>>
  /\ UNCHANGED <<ct_vars, th_vars, llm_vars>>

\* ---------------------------------------------------- clear_knowledge_base
\* lines 392-413.  outcome: what the Chroma calls of lines 405-409 do.
ClearOutcomes == {"ok", "delete_raises", "create_raises"}

\* DeleteFrom when the DELETE leaves the rows
KeepRows(table) == table

\* lines 397-398: DELETE FROM chunks, DELETE FROM documents
DeleteFrom(table) == {}

\* lines 392-413 on the tables and the collection
ClearStore(outcome) ==
  /\ ~hung
  \* lines 395-400
  /\ chunks' = DeleteFrom(chunks)
  /\ documents' = DeleteFrom(documents)
  /\ forgotten' = forgotten \cup documents
  \* lines 403-411
  /\ IF chroma_client
       THEN IF ~collection_live \/ outcome = "delete_raises"
              \* delete_collection raises: nothing is deleted
              THEN UNCHANGED <<collection, collection_live>>
            ELSE IF outcome = "create_raises"
              \* deleted, and self.collection still names the deleted one
              THEN collection' = {} /\ collection_live' = FALSE
            ELSE collection' = {} /\ collection_live' = TRUE
       ELSE UNCHANGED <<collection, collection_live>>
  /\ UNCHANGED <<PyPDF2, Document, chroma_client, seq_documents, seq_chunks, hung>>

ClearKnowledgeBase(outcome) ==
  /\ ClearStore(outcome)
  /\ ret' = Returned("clear_knowledge_base", << >>, << >>, "cleared")
  /\ UNCHANGED <<ct_vars, th_vars, llm_vars>>

\* ------------------------------------------------------ get_document_stats
\* lines 381-382: SELECT file_type, COUNT(*) ... GROUP BY file_type
FileTypeCounts(docs) ==
  [t \in {d.file_type : d \in docs} |->
     Cardinality({d \in docs : d.file_type = t})]

\* lines 370-390
Stats(docs, rows) ==
  [total_documents |-> Cardinality(docs), total_chunks |-> Cardinality(rows),
   file_types |-> FileTypeCounts(docs)]

GetDocumentStats ==
  /\ ~hung
  /\ ret' = Returned("get_document_stats", << >>, Stats(documents, chunks), "")
  /\ UNCHANGED <<PyPDF2, Document, chroma_client, collection_live, collection,
                 documents, chunks, seq_documents, seq_chunks, hung, forgotten>>
  /\ UNCHANGED <<ct_vars, th_vars, llm_vars>>

\* -------------------------------------------------------- search_knowledge
\* Scores are in tenths: relevance_score 0.5 is 5, and 1 - distance is
\* 10 - distance with the distance in tenths.
KeywordScore == 5
One == 10

\* SQLite's LOWER() and LIKE fold the ASCII letters only
SqlLowerChar(c) ==
  CASE c = "A" -> "a" [] c = "B" -> "b" [] c = "T" -> "t" [] c = "X" -> "x"
    [] OTHER -> c
SqlLower(s) == [i \in 1..Len(s) |-> SqlLowerChar(s[i])]

RECURSIVE SplitFrom(_, _, _)
\* str.split(): the maximal runs of characters that are not whitespace
SplitFrom(s, word, words) ==
  IF s = << >> THEN (IF word = << >> THEN words ELSE Append(words, word))
  ELSE IF Head(s) \in Whitespace
    THEN SplitFrom(Tail(s), << >>,
                   IF word = << >> THEN words ELSE Append(words, word))
  ELSE SplitFrom(Tail(s), Append(word, Head(s)), words)
Split(s) == SplitFrom(s, << >>, << >>)

RECURSIVE Join(_, _)
\* sep.join(words)
Join(words, sep) ==
  IF words = << >> THEN << >>
  ELSE IF Len(words) = 1 THEN Head(words)
  ELSE Head(words) \o sep \o Join(Tail(words), sep)

\* lines 347-348
SearchPattern(query) ==
  <<"%">> \o Join(Split(PyLower(query)), <<"%">>) \o <<"%">>

RECURSIVE Like(_, _)
\* SQLite's  s LIKE pattern : % matches any run of characters, _ any one
\* character, and any other character itself, ASCII letters in either case
Like(pattern, s) ==
  IF pattern = << >> THEN s = << >>
  ELSE IF Head(pattern) = "%"
    THEN Like(Tail(pattern), s) \/ (s # << >> /\ Like(pattern, Tail(s)))
  ELSE IF s = << >> THEN FALSE
  ELSE IF Head(pattern) = "_" THEN Like(Tail(pattern), Tail(s))
  ELSE /\ SqlLowerChar(Head(pattern)) = SqlLowerChar(Head(s))
       /\ Like(Tail(pattern), Tail(s))

RECURSIVE OrderById(_)
\* ORDER BY c.id
OrderById(rows) ==
  IF rows = {} THEN << >>
  ELSE LET r == CHOOSE r \in rows : \A q \in rows : r.id <= q.id
       IN  <<r>> \o OrderById(rows \ {r})

\* LIMIT n
Limit(rows, n) == SubSeq(rows, 1, Min({n, Len(rows)}))

\* lines 350-357: the chunk rows that have a document row and match
MatchingRows(query) ==
  {c \in chunks : /\ \E d \in documents : d.id = c.document_id
                  /\ Like(SearchPattern(query), SqlLower(c.content))}

\* lines 359-365
KeywordResult(c) ==
  [content |-> c.content,
   filename |-> (CHOOSE d \in documents : d.id = c.document_id).filename,
   chunk_index |-> c.chunk_index,
   relevance_score |-> KeywordScore]

\* lines 343-368
KeywordSearch(query, max_results) ==
  LET rows == Limit(OrderById(MatchingRows(query)), max_results)
  IN  [i \in 1..Len(rows) |-> KeywordResult(rows[i])]

\* lines 326-335: the result made of one entry of the response
SemanticResult(hit) ==
  [content |-> hit.entry.document,
   filename |-> hit.entry.metadata.filename,
   chunk_index |-> hit.entry.metadata.chunk_index,
   relevance_score |-> One - hit.distance]

\* The distances (in tenths) Chroma may report; beyond 10 the score is negative.
Distances == {0, 12}

\* What collection.query may answer (line 320) for n_results = n: the
\* min(n, count) nearest entries, nearest first, in any ranking the
\* embedding may give.
Responses(n) ==
  LET k == Min({n, Cardinality(collection)})
  IN  {h \in [1..k -> [entry : collection, distance : Distances]] :
         /\ \A i, j \in 1..k : i # j => h[i].entry # h[j].entry
         /\ \A i, j \in 1..k : i < j => h[i].distance <= h[j].distance}

\* How the semantic path of one call goes (lines 318-340):
\*   "none"      no Chroma client, the path is not taken
\*   "raises"    collection.query raises
\*   "ok"        the response hits is well formed
\*   "malformed" reading entry number fail_at (from 0) of the response
\*               raises (a key or a list is missing, a metadata is None)
QueryOutcomes(n) ==
  IF ~chroma_client THEN {[kind |-> "none"]}
  ELSE IF ~collection_live THEN {[kind |-> "raises"]}
  ELSE {[kind |-> "raises"]}
         \cup {[kind |-> "ok", hits |-> h] : h \in Responses(n)}
         \cup UNION {{[kind |-> "malformed", hits |-> h, fail_at |-> i] :
                         i \in 0..Max({0, Len(h) - 1})} : h \in Responses(n)}

\* lines 320-335: the results the semantic path has appended when it ends,
\* by its return or by an exception
SemanticPart(outcome) ==
  IF outcome.kind = "ok"
    THEN [i \in 1..Len(outcome.hits) |-> SemanticResult(outcome.hits[i])]
  ELSE IF outcome.kind = "malformed"
    THEN [i \in 1..outcome.fail_at |-> SemanticResult(outcome.hits[i])]
  ELSE << >>

\* FallsThrough when an empty semantic answer goes on to the keyword path
FallsThroughWhenEmpty(outcome) ==
  outcome.kind # "ok" \/ outcome.hits = << >>

\* lines 318-343: control reaches the keyword path unless the return of
\* line 337 is executed
FallsThrough(outcome) == outcome.kind # "ok"

\* lines 315-368: the list that is returned; lines 339-368 go on with the
\* list of lines 326-335
SearchResults(query, max_results, outcome) ==
  SemanticPart(outcome)
    \o (IF FallsThrough(outcome) THEN KeywordSearch(query, max_results)
                                 ELSE << >>)

\* lines 304-368.  ret.sql tells whether the SELECT of lines 350-357 ran.
SearchKnowledge(query, max_results, outcome) ==
  /\ ~hung
  /\ ret' = [op |-> "search_knowledge",
             arg |-> [query |-> query, max_results |-> max_results],
             value |-> SearchResults(query, max_results, outcome),
             \* lines 339-340
             log |-> IF outcome.kind \in {"raises", "malformed"}
                       THEN "semantic_error" ELSE "",
             sql |-> FallsThrough(outcome)]
  /\ UNCHANGED <<PyPDF2, Document, chroma_client, collection_live, collection,
                 documents, chunks, seq_documents, seq_chunks, hung, forgotten>>
  /\ UNCHANGED <<ct_vars, th_vars, llm_vars>>

\* The queries and limits of the caller.
Queries == {<<"a">>, <<"B", " ", " ", "A">>, << >>}
ResultLimits == {1, 2}

\* collection.add is called, and so can raise, only with a Chroma client
AddOutcomes == IF chroma_client THEN BOOLEAN ELSE {FALSE}

Init ==
  /\ DbInit
  /\ ct_text = << >>
  /\ ct_chunk_size = ScaledChunkSize
  /\ ct_overlap = ScaledOverlap
  /\ ct_start = 0
  /\ ct_end = 0
  /\ ct_chunks = << >>
  /\ ct_iter = 0
  /\ ct_pc = "done"

Next ==
  \/ \E f \in Files, cb \in Callbacks, add_raises \in AddOutcomes :
       ProcessDocument(f, cb, add_raises)
  \/ \E outcome \in ClearOutcomes : ClearKnowledgeBase(outcome)
  \/ GetDocumentStats

Spec == Init /\ [][Next]_vars


\* The files and callbacks of SearchSpec, which adds search_knowledge to a
\* store of fewer documents.
SearchFiles ==
  { File("x", SuffixTxt, TRUE, BytesShort),
    File("y", SuffixTxt, TRUE, BytesLong) }
NoCallback == [given |-> FALSE, raises_at |-> 0]

SearchNext ==
  \/ \E f \in SearchFiles, add_raises \in AddOutcomes :
       ProcessDocument(f, NoCallback, add_raises)
  \* resets of a store that has taken at most one document: the ids a
  \* later reset would add bring no other search
  \/ \E outcome \in ClearOutcomes :
       seq_documents <= 1 /\ ClearKnowledgeBase(outcome)
  \/ \E query \in Queries, max_results \in ResultLimits :
       \E outcome \in QueryOutcomes(max_results) :
         SearchKnowledge(query, max_results, outcome)

SearchSpec == Init /\ [][SearchNext]_vars


\* ------------------------------------------- the calls as steps (StepSpec)
\* process_document and clear_knowledge_base statement by statement on one
\* thread, with get_document_stats statement by statement and
\* search_knowledge on another.  Each call opens its own connection (lines
\* 219, 343, 372, 394).  sqlite3 begins a transaction before the first
\* INSERT or DELETE of a connection and ends it at commit(); a SELECT
\* outside a transaction reads what is committed when it executes.

\* A progress callback that returns from every invocation.
QuietCallback == [given |-> TRUE, raises_at |-> 0]

StepFiles ==
  { File("x", SuffixTxt, TRUE, BytesLong),
    File("y", SuffixMd, TRUE, BytesShort) }

StepCallbacks == {NoCallback, QuietCallback, [given |-> TRUE, raises_at |-> 2]}

\* StepAfter when the dedup gate is left out
StepAfterWithoutGate(pc) ==
  CASE pc = "hash" -> "callback1"
    [] pc = "lookup" -> "callback1"
    [] pc = "callback1" -> "extract"
    [] pc = "extract" -> "callback2"
    [] pc = "callback2" -> "chunk"
    [] pc = "chunk" -> "insert_document"
    [] pc = "insert_document" -> "insert_chunks"
    [] pc = "insert_chunks" -> "commit"
    [] pc = "commit" -> "callback3"
    [] pc = "callback3" -> "index"

\* lines 209-298: the statement that follows when none returns or raises
StepAfter(pc) ==
  CASE pc = "hash" -> "lookup"
    [] pc = "lookup" -> "callback1"
    [] pc = "callback1" -> "extract"
    [] pc = "extract" -> "callback2"
    [] pc = "callback2" -> "chunk"
    [] pc = "chunk" -> "insert_document"
    [] pc = "insert_document" -> "insert_chunks"
    [] pc = "insert_chunks" -> "commit"
    [] pc = "commit" -> "callback3"
    [] pc = "callback3" -> "index"

\* The process_document call is at pc.
PdAt(pc) == ~hung /\ wr.op = "process_document" /\ wr.pc = pc

\* the chunks of line 253
PdChunks(f) == chunk_text(ExtractText(f).text, ScaledChunkSize, ScaledOverlap)

\* The other variables of the store, which a step names when it changes one.
PdGoes == wr' = [wr EXCEPT !.pc = StepAfter(wr.pc)]
PdKeeps ==
  UNCHANGED <<PyPDF2, Document, chroma_client, collection_live, forgotten,
              workers>>

\* a return: the call ends with value and log
PdReturns(value, log) ==
  /\ ret' = Returned("process_document", wr.f, value, log)
  /\ wr' = NoCall

\* lines 300-302: an exception ends the call; the connection, a local of the
\* frame, is closed with it, and SQLite rolls its open transaction back
PdFails ==
  /\ PdReturns(FALSE, "error")
  /\ tx' = NoTx

\* line 196: the call begins
PdCall(f, cb) ==
  /\ ~hung
  /\ wr = NoCall
  /\ wr' = [op |-> "process_document", pc |-> "hash", f |-> f, cb |-> cb,
            existing |-> "unset", document_id |-> 0, i |-> 0]
  /\ UNCHANGED <<collection, documents, chunks, seq_documents, seq_chunks,
                 hung, ret, tx, rd>>
  /\ PdKeeps
  /\ UNCHANGED <<ct_vars, llm_vars>>

\* lines 209-216
PdHash ==
  /\ PdAt("hash")
  /\ IF wr.f.exists THEN PdGoes /\ ret' = ret
                    ELSE PdReturns(FALSE, "not_found")
  /\ UNCHANGED <<collection, documents, chunks, seq_documents, seq_chunks,
                 hung, tx, rd>>
  /\ PdKeeps
  /\ UNCHANGED <<ct_vars, llm_vars>>

\* lines 219-227: the SELECT reads the committed rows
PdLookup ==
  /\ PdAt("lookup")
  /\ IF ExistingDocument(calculate_file_hash(wr.f)) # {}
       THEN PdReturns(TRUE, "already")
       ELSE /\ wr' = [wr EXCEPT !.pc = StepAfter(wr.pc), !.existing = "no_row"]
            /\ ret' = ret
  /\ UNCHANGED <<collection, documents, chunks, seq_documents, seq_chunks,
                 hung, tx, rd>>
  /\ PdKeeps
  /\ UNCHANGED <<ct_vars, llm_vars>>

\* lines 229-230, 249-250, 272-273: the k-th invocation, if there is a
\* callback.  The transaction is committed before the third.
PdCallback(k) ==
  /\ PdAt(<<"callback1", "callback2", "callback3">>[k])
  /\ IF CallbackRaises(wr.cb, k) THEN PdFails
                                 ELSE PdGoes /\ ret' = ret /\ tx' = tx
  /\ UNCHANGED <<collection, documents, chunks, seq_documents, seq_chunks,
                 hung, rd>>
  /\ PdKeeps
  /\ UNCHANGED <<ct_vars, llm_vars>>

\* lines 233-247
PdExtract ==
  /\ PdAt("extract")
  /\ LET ex == ExtractText(wr.f)
     IN  IF ~ex.supported THEN PdReturns(FALSE, "unsupported") /\ tx' = tx
         ELSE IF ex.raises THEN PdFails
         ELSE IF NoText(ex.text) THEN PdReturns(FALSE, "no_text") /\ tx' = tx
         ELSE PdGoes /\ ret' = ret /\ tx' = tx
  /\ UNCHANGED <<collection, documents, chunks, seq_documents, seq_chunks,
                 hung, rd>>
  /\ PdKeeps
  /\ UNCHANGED <<ct_vars, llm_vars>>

\* line 253
PdChunk ==
  /\ PdAt("chunk")
  /\ IF PdChunks(wr.f).returns
       THEN PdGoes /\ hung' = hung
       ELSE wr' = wr /\ hung' = TRUE
  /\ UNCHANGED <<collection, documents, chunks, seq_documents, seq_chunks,
                 ret, tx, rd>>
  /\ PdKeeps
  /\ UNCHANGED <<ct_vars, llm_vars>>

\* lines 256-261: the INSERT begins the transaction; tx holds the tables as
\* the connection sees them
PdInsertDocument ==
  /\ PdAt("insert_document")
  /\ seq_documents < MaxDocId
  /\ IF UniqueViolation(calculate_file_hash(wr.f))
       THEN PdFails
       ELSE LET document_id == AutoIncrement(seq_documents, documents)
                list == PdChunks(wr.f).chunks
            IN  /\ tx' = [open |-> TRUE,
                          documents |-> documents
                            \cup {DocumentRow(document_id, wr.f, Len(list))},
                          chunks |-> chunks]
                /\ wr' = [wr EXCEPT !.document_id = document_id,
                                    !.pc = IF list = << >>
                                             THEN "commit"
                                             ELSE StepAfter(wr.pc)]
                /\ ret' = ret
  /\ UNCHANGED <<collection, documents, chunks, seq_documents, seq_chunks,
                 hung, rd>>
  /\ PdKeeps
  /\ UNCHANGED <<ct_vars, llm_vars>>

\* lines 264-268: one INSERT of the loop
PdInsertChunk ==
  /\ PdAt("insert_chunks")
  /\ LET list == PdChunks(wr.f).chunks
         row == ChunkRows(wr.document_id, seq_chunks + 1, list)
     IN  /\ tx' = [tx EXCEPT !.chunks =
                     @ \cup {c \in row : c.chunk_index = wr.i}]
         /\ wr' = [wr EXCEPT !.i = wr.i + 1,
                             !.pc = IF wr.i + 1 = Len(list)
                                      THEN StepAfter(wr.pc) ELSE wr.pc]
  /\ UNCHANGED <<collection, documents, chunks, seq_documents, seq_chunks,
                 hung, ret, rd>>
  /\ PdKeeps
  /\ UNCHANGED <<ct_vars, llm_vars>>

\* execute() or commit() raises sqlite3.Error inside the transaction (the
\* database is locked, the disk is full): lines 300-302
PdSqlError ==
  /\ ~hung
  /\ wr.op = "process_document"
  /\ wr.pc \in {"insert_chunks", "commit"}
  /\ PdFails
  /\ UNCHANGED <<collection, documents, chunks, seq_documents, seq_chunks,
                 hung, rd>>
  /\ PdKeeps
  /\ UNCHANGED <<ct_vars, llm_vars>>

\* The commit of the writer shows in the call of the reader that is in
\* progress (not in the code: rd.commits names the calls that committed
\* between the statements of the reader).
RdSees(op) ==
  rd' = IF rd = NoCall THEN rd ELSE [rd EXCEPT !.commits = @ \cup {op}]

\* line 269: the rows of the transaction become the committed rows
PdCommit ==
  /\ PdAt("commit")
  /\ documents' = tx.documents
  /\ chunks' = tx.chunks
  /\ seq_documents' = wr.document_id
  /\ seq_chunks' = seq_chunks + wr.i
  /\ tx' = NoTx
  /\ PdGoes
  /\ RdSees("process_document")
  /\ UNCHANGED <<collection, hung, ret>>
  /\ PdKeeps
  /\ UNCHANGED <<ct_vars, llm_vars>>

\* AddEscapes when the except of line 293 is left out
AddEscapesWhenRaised(add_raises) == add_raises

\* lines 277, 293-294: what collection.add raises is caught and logged, so
\* no exception of the index leaves the try of line 277
AddEscapes(add_raises) == FALSE

\* lines 276-298
PdIndex(add_raises) ==
  /\ PdAt("index")
  /\ LET entries ==
           IndexEntries(wr.document_id, wr.f, PdChunks(wr.f).chunks)
     IN  collection' =
           IF /\ chroma_client
              /\ collection_live
              /\ ~add_raises
              /\ \A e \in entries : \A c \in collection : c.id # e.id
             THEN collection \cup entries
             ELSE collection
  /\ IF AddEscapes(add_raises) THEN PdFails
                                ELSE PdReturns(TRUE, "ok") /\ tx' = tx
  /\ UNCHANGED <<documents, chunks, seq_documents, seq_chunks, hung, rd>>
  /\ PdKeeps
  /\ UNCHANGED <<ct_vars, llm_vars>>

\* clear_knowledge_base, lines 392-413
ClAt(pc) == ~hung /\ wr.op = "clear_knowledge_base" /\ wr.pc = pc

\* line 392: the call begins
ClCall ==
  /\ ~hung
  /\ wr = NoCall
  /\ wr' = [op |-> "clear_knowledge_base", pc |-> "delete_chunks"]
  /\ UNCHANGED <<collection, collection_live, documents, chunks,
                 seq_documents, seq_chunks, hung, forgotten, ret, tx, rd>>
  /\ UNCHANGED <<PyPDF2, Document, chroma_client, workers>>
  /\ UNCHANGED <<ct_vars, llm_vars>>

\* line 397: the DELETE begins the transaction
ClDeleteChunks ==
  /\ ClAt("delete_chunks")
  /\ tx' = [open |-> TRUE, documents |-> documents,
            chunks |-> DeleteFrom(chunks)]
  /\ wr' = [wr EXCEPT !.pc = "delete_documents"]
  /\ UNCHANGED <<collection, collection_live, documents, chunks,
                 seq_documents, seq_chunks, hung, forgotten, ret, rd>>
  /\ UNCHANGED <<PyPDF2, Document, chroma_client, workers>>
  /\ UNCHANGED <<ct_vars, llm_vars>>

\* line 398
ClDeleteDocuments ==
  /\ ClAt("delete_documents")
  /\ tx' = [tx EXCEPT !.documents = DeleteFrom(@)]
  /\ wr' = [wr EXCEPT !.pc = "commit"]
  /\ UNCHANGED <<collection, collection_live, documents, chunks,
                 seq_documents, seq_chunks, hung, forgotten, ret, rd>>
  /\ UNCHANGED <<PyPDF2, Document, chroma_client, workers>>
  /\ UNCHANGED <<ct_vars, llm_vars>>

\* line 399
ClCommit ==
  /\ ClAt("commit")
  /\ documents' = tx.documents
  /\ chunks' = tx.chunks
  /\ forgotten' = forgotten \cup documents
  /\ tx' = NoTx
  /\ wr' = [wr EXCEPT !.pc = "chroma"]
  /\ RdSees("clear_knowledge_base")
  /\ UNCHANGED <<collection, collection_live, seq_documents, seq_chunks,
                 hung, ret>>
  /\ UNCHANGED <<PyPDF2, Document, chroma_client, workers>>
  /\ UNCHANGED <<ct_vars, llm_vars>>

\* lines 403-413
ClChroma(outcome) ==
  /\ ClAt("chroma")
  /\ IF chroma_client
       THEN IF ~collection_live \/ outcome = "delete_raises"
              THEN UNCHANGED <<collection, collection_live>>
            ELSE IF outcome = "create_raises"
              THEN collection' = {} /\ collection_live' = FALSE
            ELSE collection' = {} /\ collection_live' = TRUE
       ELSE UNCHANGED <<collection, collection_live>>
  /\ ret' = Returned("clear_knowledge_base", << >>, << >>, "cleared")
  /\ wr' = NoCall
  /\ UNCHANGED <<documents, chunks, seq_documents, seq_chunks, hung,
                 forgotten, tx, rd>>
  /\ UNCHANGED <<PyPDF2, Document, chroma_client, workers>>
  /\ UNCHANGED <<ct_vars, llm_vars>>

\* get_document_stats, lines 370-390: three SELECTs with no transaction
\* around them.  seen_documents and seen_chunks are the rows its SELECTs
\* have read (not in the code).
StAt(pc) == ~hung /\ rd.op = "get_document_stats" /\ rd.pc = pc

RdKeeps ==
  /\ UNCHANGED <<PyPDF2, Document, chroma_client, collection_live,
                 collection, documents, chunks, seq_documents, seq_chunks,
                 hung, forgotten, wr, tx, workers>>
  /\ UNCHANGED <<ct_vars, llm_vars>>

\* line 370: the call begins
StCall ==
  /\ ~hung
  /\ rd = NoCall
  /\ rd' = [op |-> "get_document_stats", pc |-> "count_documents",
            doc_count |-> 0, chunk_count |-> 0,
            seen_documents |-> {}, seen_chunks |-> {}, commits |-> {}]
  /\ ret' = ret
  /\ RdKeeps

\* lines 375-376
StCountDocuments ==
  /\ StAt("count_documents")
  /\ rd' = [rd EXCEPT !.pc = "count_chunks",
                      !.doc_count = Cardinality(documents),
                      !.seen_documents = documents]
  /\ ret' = ret
  /\ RdKeeps

\* lines 378-379
StCountChunks ==
  /\ StAt("count_chunks")
  /\ rd' = [rd EXCEPT !.pc = "file_types",
                      !.chunk_count = Cardinality(chunks),
                      !.seen_chunks = chunks]
  /\ ret' = ret
  /\ RdKeeps

\* lines 381-390
StFileTypes ==
  /\ StAt("file_types")
  /\ ret' = Returned("get_document_stats", << >>,
                      [total_documents |-> rd.doc_count,
                       total_chunks |-> rd.chunk_count,
                       file_types |-> FileTypeCounts(documents)], "")
  /\ rd' = NoCall
  /\ RdKeeps

\* search_knowledge on the reader's thread: the keyword path, whose one
\* SELECT (lines 350-357) reads the committed rows
KeywordOutcomes ==
  IF chroma_client THEN {[kind |-> "raises"]} ELSE {[kind |-> "none"]}

\* a word, and a word with a character that LIKE reads as a wildcard
StepQueries == {<<"a">>, <<"_", "b">>}

StepNext ==
  \/ \E f \in StepFiles, cb \in StepCallbacks : PdCall(f, cb)
  \/ PdHash
  \/ PdLookup
  \/ \E k \in 1..3 : PdCallback(k)
  \/ PdExtract
  \/ PdChunk
  \/ PdInsertDocument
  \/ PdInsertChunk
  \/ PdSqlError
  \/ PdCommit
  \/ \E add_raises \in AddOutcomes : PdIndex(add_raises)
  \/ ClCall
  \/ ClDeleteChunks
  \/ ClDeleteDocuments
  \/ ClCommit
  \/ \E outcome \in ClearOutcomes : ClChroma(outcome)
  \/ StCall
  \/ StCountDocuments
  \/ StCountChunks
  \/ StFileTypes
  \/ \E query \in StepQueries, max_results \in ResultLimits :
       \E outcome \in KeywordOutcomes :
         rd = NoCall /\ SearchKnowledge(query, max_results, outcome)

StepSpec == Init /\ [][StepNext]_vars


\* ---------------------------------------- LocalLLM, llm_system.py (ChatSpec)
\* document_processor.py line 304: max_results of search_knowledge(prompt)
DefaultMaxResults == 5
\* llm_system.py line 172: search_results[:3]
TopResults == 3
\* llm_system.py line 214
StatusOk == 200

\* llm_system.py lines 228 and 232
FallbackGenerate == "Desculpe, ocorreu um erro ao gerar a resposta."
FallbackProcess == "Desculpe, ocorreu um erro ao processar sua pergunta."

\* What requests.post and the response do (llm_system.py lines 208-216):
\* the request raises (no connection), times out (requests.Timeout after
\* 120 s), or answers with a status; the body of a 200 answer is JSON or
\* not, with the key 'response' or without it.
Endpoint(kind, status_code, parses, has_response) ==
  [kind |-> kind, status_code |-> status_code, parses |-> parses,
   has_response |-> has_response, response |-> <<" ", "o", "k", "\n">>]

EndpointOutcomes ==
  { Endpoint("raises", 0, FALSE, FALSE),
    Endpoint("timeout", 0, FALSE, FALSE),
    Endpoint("status", 500, FALSE, FALSE),
    Endpoint("status", StatusOk, FALSE, FALSE),
    Endpoint("status", StatusOk, TRUE, FALSE),
    Endpoint("status", StatusOk, TRUE, TRUE) }

\* llm_system.py line 171: f"[{result['filename']}]: {result['content']}"
FormatResult(result) ==
  <<"[", result.filename[1]>> \o result.filename[2] \o <<"]", ":", " ">>
    \o result.content

\* llm_system.py lines 166-173
RelevantContext(use_context, search_results) ==
  IF use_context /\ search_results # << >>
    THEN Join([i \in 1..Min({TopResults, Len(search_results)}) |->
                 FormatResult(search_results[i])], <<"\n", "\n">>)
    ELSE << >>

\* Succeeds when every status is taken for a success
SucceedsOnAnyStatus(endpoint) == endpoint.kind = "status"

\* llm_system.py line 214: the branch that reads the answer is taken
Succeeds(endpoint) ==
  endpoint.kind = "status" /\ endpoint.status_code = StatusOk

\* llm_system.py lines 215-216: result.get('response', '').strip()
Answer(endpoint) ==
  IF endpoint.has_response THEN Strip(endpoint.response) ELSE << >>

\* llm_system.py lines 219-223
Turn(prompt, answer, relevant_context) ==
  [user |-> prompt, assistant |-> answer,
   context_used |-> relevant_context # << >>]

\* How the semantic path of search_knowledge(prompt) may go (line 168).  A
\* response that cannot be read to its end is left to SearchSpec: the list
\* it gives, semantic results with keyword results after them, is empty or
\* not as the lists of the other outcomes are.
ChatSearches(use_context) ==
  IF use_context
    THEN {o \in QueryOutcomes(DefaultMaxResults) : o.kind # "malformed"}
    ELSE {[kind |-> "unused"]}

\* llm_system.py lines 152-232.  ret.endpoint is what the endpoint did and
\* ret.results the number of results search_knowledge returned.
GenerateResponse(prompt, use_context, outcome, endpoint) ==
  /\ ~hung
  /\ LET search_results ==
           IF use_context
             THEN SearchResults(prompt, DefaultMaxResults, outcome)
             ELSE << >>
         relevant_context == RelevantContext(use_context, search_results)
         Result(value, log) ==
           ret' = [op |-> "generate_response",
                   arg |-> [prompt |-> prompt, use_context |-> use_context],
                   value |-> value, log |-> log, endpoint |-> endpoint,
                   results |-> Len(search_results)]
     IN  \* lines 208-212 raise: lines 230-232
         IF endpoint.kind \in {"raises", "timeout"}
           THEN /\ Result(FallbackProcess, "error")
                /\ conversation_history' = conversation_history
         \* lines 226-228
         ELSE IF ~Succeeds(endpoint)
           THEN /\ Result(FallbackGenerate, "status_error")
                /\ conversation_history' = conversation_history
         \* line 215 raises: lines 230-232
         ELSE IF ~endpoint.parses
           THEN /\ Result(FallbackProcess, "error")
                /\ conversation_history' = conversation_history
         \* lines 216-225
         ELSE /\ Len(conversation_history) < MaxTurns
              /\ Result(Answer(endpoint), "")
              /\ conversation_history' =
                   Append(conversation_history,
                          Turn(prompt, Answer(endpoint), relevant_context))
  /\ UNCHANGED <<PyPDF2, Document, chroma_client, collection_live, collection,
                 documents, chunks, seq_documents, seq_chunks, hung, forgotten>>
  /\ UNCHANGED <<ct_vars, th_vars>>

\* llm_system.py lines 251-254
ClearKnowledge(outcome) ==
  /\ ClearStore(outcome)
  /\ conversation_history' = << >>
  /\ ret' = Returned("clear_knowledge", << >>, << >>, "cleared")
  /\ UNCHANGED <<ct_vars, th_vars>>

\* llm_system.py lines 260-262
ClearConversation ==
  /\ ~hung
  /\ conversation_history' = << >>
  /\ ret' = Returned("clear_conversation", << >>, << >>, "")
  /\ UNCHANGED <<PyPDF2, Document, chroma_client, collection_live, collection,
                 documents, chunks, seq_documents, seq_chunks, hung, forgotten>>
  /\ UNCHANGED <<ct_vars, th_vars>>

\* ListCopy when the list itself is returned
ListItself(list) == [shares |-> TRUE, items |-> list]

\* llm_system.py line 258: list.copy() is a new list of the same items; the
\* dicts of the turns are the history's
ListCopy(list) == [shares |-> FALSE, items |-> list]

\* What the caller does to the list it got: nothing, or one of the changes
\* of a list (append, pop, item assignment, clear).
ListMutations == {"none", "append", "pop", "setitem", "clear"}

\* A turn of the caller's making.
Stranger == [user |-> <<"b">>, assistant |-> << >>, context_used |-> FALSE]

\* list after the change
Mutated(items, mutation) ==
  CASE mutation = "none" -> items
    [] mutation = "append" -> Append(items, Stranger)
    [] mutation = "pop" ->
         IF items = << >> THEN items ELSE SubSeq(items, 1, Len(items) - 1)
    [] mutation = "setitem" ->
         IF items = << >> THEN items ELSE [items EXCEPT ![1] = Stranger]
    [] mutation = "clear" -> << >>

\* llm_system.py lines 256-258, and the caller's change of the returned
\* list.  ret.value is that list after the change.
GetConversationHistory(mutation) ==
  /\ ~hung
  /\ LET returned == ListCopy(conversation_history)
     IN  /\ ret' = Returned("get_conversation_history", mutation,
                            Mutated(returned.items, mutation), "")
         /\ conversation_history' =
              IF returned.shares THEN Mutated(returned.items, mutation)
                                 ELSE conversation_history
  /\ UNCHANGED <<PyPDF2, Document, chroma_client, collection_live, collection,
                 documents, chunks, seq_documents, seq_chunks, hung, forgotten>>
  /\ UNCHANGED <<ct_vars, th_vars>>

\* The caller changes, through the returned list, the dict of its first
\* turn (returned[0]['assistant'] = ''), which is the dict of the history.
SetTurnKey ==
  /\ ~hung
  /\ conversation_history # << >>
  /\ conversation_history[1].assistant # << >>
  /\ conversation_history' =
       [conversation_history EXCEPT ![1].assistant = << >>]
  /\ ret' = Returned("get_conversation_history", "setkey",
                     conversation_history', "")
  /\ UNCHANGED <<PyPDF2, Document, chroma_client, collection_live, collection,
                 documents, chunks, seq_documents, seq_chunks, hung, forgotten>>
  /\ UNCHANGED <<ct_vars, th_vars>>

ChatFiles == {File("x", SuffixTxt, TRUE, BytesShort)}
Prompts == {<<"a">>}

ChatNext ==
  \* add_document, llm_system.py lines 234-245
  \/ \E f \in ChatFiles, add_raises \in AddOutcomes :
       ProcessDocument(f, NoCallback, add_raises)
  \* get_knowledge_stats, llm_system.py lines 247-249
  \/ GetDocumentStats
  \/ \E outcome \in ClearOutcomes : ClearKnowledge(outcome)
  \/ ClearConversation
  \/ \E prompt \in Prompts, use_context \in BOOLEAN :
       \E outcome \in ChatSearches(use_context), endpoint \in EndpointOutcomes :
         GenerateResponse(prompt, use_context, outcome, endpoint)
  \/ \E mutation \in ListMutations : GetConversationHistory(mutation)
  \/ SetTurnKey

ChatSpec == Init /\ [][ChatNext]_vars


\* ------------------------------- concurrent process_document calls (RaceSpec)
\* gui_interface.py lines 261-287: every click on the button starts a thread
\* that calls process_document on the files chosen, so two calls can be in
\* progress at once, each on its own connection (line 219).  The SELECT of
\* lines 221-222 reads the committed rows.  The INSERT of lines 256-259
\* begins the transaction and takes the write lock of the database, which
\* one connection holds at a time; a connection that finds it taken waits
\* (sqlite3.connect's default timeout of 5 s) and raises OperationalError
\* when the wait runs out.  The statements between (lines 229-253) touch
\* nothing the threads share and go with the step that follows them.
RaceFiles ==
  { File("x", SuffixTxt, TRUE, BytesShort),
    File("y", SuffixTxt, TRUE, BytesShort),
    File("y", SuffixTXT, TRUE, BytesLong) }

\* worker w is at pc of a process_document call
RcAt(w, pc) ==
  ~hung /\ workers[w].op = "process_document" /\ workers[w].pc = pc

\* another connection holds the write lock
WriteLocked(w) == \E v \in Workers \ {w} : workers[v].op = "process_document"
                                            /\ workers[v].tx.open

\* the call of worker w ends with value and log (lines 227, 298, 302); an
\* exception closes the connection, which rolls its transaction back
RcReturns(w, value, log) ==
  /\ workers' = [workers EXCEPT ![w] =
                   [op |-> "returned", f |-> workers[w].f, value |-> value,
                    log |-> log]]
  /\ ret' = Returned("process_document", workers[w].f, value, log)

RcKeeps ==
  /\ UNCHANGED <<PyPDF2, Document, chroma_client, collection_live, forgotten,
                 hung, wr, tx, rd>>
  /\ UNCHANGED <<ct_vars, llm_vars>>

\* lines 196-216: the call begins, on a file that exists
RcCall(w, f) ==
  /\ ~hung
  /\ workers[w].op \in {"none", "returned"}
  /\ f.exists
  /\ workers' = [workers EXCEPT ![w] =
                   [op |-> "process_document", pc |-> "lookup", f |-> f,
                    document_id |-> 0, n |-> 0, tx |-> NoTx]]
  /\ UNCHANGED <<collection, documents, chunks, seq_documents, seq_chunks, ret>>
  /\ RcKeeps

\* lines 219-253, with no progress callback
RcLookup(w) ==
  /\ RcAt(w, "lookup")
  /\ LET f == workers[w].f
         ex == ExtractText(f)
     IN  IF ExistingDocument(calculate_file_hash(f)) # {}
           THEN RcReturns(w, TRUE, "already")
         ELSE IF ~ex.supported THEN RcReturns(w, FALSE, "unsupported")
         ELSE IF ex.raises THEN RcReturns(w, FALSE, "error")
         ELSE IF NoText(ex.text) THEN RcReturns(w, FALSE, "no_text")
         ELSE /\ PdChunks(f).returns
              /\ workers' = [workers EXCEPT ![w].pc = "insert"]
              /\ ret' = ret
  /\ UNCHANGED <<collection, documents, chunks, seq_documents, seq_chunks>>
  /\ RcKeeps

\* lines 256-268: the INSERTs of the transaction, when the write lock is
\* free; the UNIQUE constraint of line 61 is checked against the committed
\* rows
RcInsert(w) ==
  /\ RcAt(w, "insert")
  /\ ~WriteLocked(w)
  /\ seq_documents < MaxDocId
  /\ LET f == workers[w].f
         list == PdChunks(f).chunks
         document_id == AutoIncrement(seq_documents, documents)
     IN  IF UniqueViolation(calculate_file_hash(f))
           THEN RcReturns(w, FALSE, "error")
           ELSE /\ workers' =
                     [workers EXCEPT
                        ![w].pc = "commit",
                        ![w].document_id = document_id,
                        ![w].n = Len(list),
                        ![w].tx =
                          [open |-> TRUE,
                           documents |-> documents
                             \cup {DocumentRow(document_id, f, Len(list))},
                           chunks |-> chunks
                             \cup ChunkRows(document_id, seq_chunks + 1, list)]]
                /\ ret' = ret
  /\ UNCHANGED <<collection, documents, chunks, seq_documents, seq_chunks>>
  /\ RcKeeps

\* lines 256-259, 300-302: the wait for the write lock runs out
RcLocked(w) ==
  /\ RcAt(w, "insert")
  /\ WriteLocked(w)
  /\ RcReturns(w, FALSE, "error")
  /\ UNCHANGED <<collection, documents, chunks, seq_documents, seq_chunks>>
  /\ RcKeeps

\* line 270
RcCommit(w) ==
  /\ RcAt(w, "commit")
  /\ documents' = workers[w].tx.documents
  /\ chunks' = workers[w].tx.chunks
  /\ seq_documents' = workers[w].document_id
  /\ seq_chunks' = seq_chunks + workers[w].n
  /\ workers' = [workers EXCEPT ![w].pc = "index", ![w].tx = NoTx]
  /\ UNCHANGED <<collection, ret>>
  /\ RcKeeps

\* lines 276-298
RcIndex(w, add_raises) ==
  /\ RcAt(w, "index")
  /\ LET entries == IndexEntries(workers[w].document_id, workers[w].f,
                                  PdChunks(workers[w].f).chunks)
     IN  collection' =
           IF /\ chroma_client
              /\ collection_live
              /\ ~add_raises
              /\ \A e \in entries : \A c \in collection : c.id # e.id
             THEN collection \cup entries
             ELSE collection
  /\ RcReturns(w, TRUE, "ok")
  /\ UNCHANGED <<documents, chunks, seq_documents, seq_chunks>>
  /\ RcKeeps

RaceNext ==
  \/ \E w \in Workers, f \in RaceFiles : RcCall(w, f)
  \/ \E w \in Workers : RcLookup(w)
  \/ \E w \in Workers : RcInsert(w)
  \/ \E w \in Workers : RcLocked(w)
  \/ \E w \in Workers : RcCommit(w)
  \/ \E w \in Workers, add_raises \in AddOutcomes : RcIndex(w, add_raises)

RaceSpec == Init /\ [][RaceNext]_vars


\* =================================================================== claims
\* ------------------------------------------------------------ chunk_text

\* C2.  chunk_text terminates: for every text and every 0 <= overlap <
\* chunk_size the call reaches its return, also when sentence ends shrink
\* the window.  (Checked under ChunkFairSpec: the loop keeps running.)
C2_ChunkTextTerminates == <>(ct_pc = "done")

\* C8.  A text no longer than chunk_size gives exactly one chunk, the text
\* with its leading and trailing whitespace removed.
C8_ShortTextIsOneTrimmedChunk ==
  (ct_pc = "done" /\ Len(ct_text) <= ct_chunk_size)
    => ct_chunks = <<Strip(ct_text)>>

\* The sentence ends inside the window [start, start + chunk_size), after start.
SentenceEndsInWindow(text, start, chunk_size) ==
  {p \in 0..(Len(text) - 1) :
     /\ start < p
     /\ p < start + chunk_size
     /\ text[p + 1] \in SentenceEnd}

\* C9.  Every iteration of the loop, at a window whose right edge is before
\* the end of the text and that holds a '.', '!' or '?' after position
\* start, ends the chunk just after the last of them; at any other window
\* it ends the chunk at start + chunk_size.
C9_SentenceBoundaryPreferred ==
  [][(ct_pc = "body" /\ ct_pc' = "loop")
       => LET ends == SentenceEndsInWindow(ct_text, ct_start, ct_chunk_size)
              raw == ct_start + ct_chunk_size
          IN  ct_end' = IF raw < Len(ct_text) /\ ends # {}
                          THEN Max(ends) + 1
                          ELSE raw]_vars

\* A text longer than chunk_size of letters only: no sentence end, no whitespace.
PlainLongText ==
  /\ Len(ct_text) > ct_chunk_size
  /\ \A i \in 1..Len(ct_text) : ct_text[i] \in Letters

FirstN(s, n) == SubSeq(s, 1, n)
LastN(s, n) == SubSeq(s, Len(s) - n + 1, Len(s))

\* Chunk number k (from 1) is the window that starts at (k - 1) * step.
SteppedWindows(step) ==
  /\ ct_pc \in {"loop", "body"} => ct_start = ct_iter * step
  /\ Len(ct_chunks) = ct_iter
  /\ \A k \in 1..Len(ct_chunks) :
       ct_chunks[k] = Slice(ct_text, (k - 1) * step,
                            (k - 1) * step + ct_chunk_size)

\* C10 as stated.  On a text of letters only, longer than chunk_size, the
\* windows start at 0, s, 2s, ... with s = chunk_size - overlap, and every
\* chunk but the final one is followed by a chunk whose first overlap
\* characters are its own last overlap characters.
C10_OverlapAfterEveryChunk ==
  (PlainLongText /\ ct_pc = "done")
    => /\ SteppedWindows(ct_chunk_size - ct_overlap)
       /\ \A k \in 1..(Len(ct_chunks) - 1) :
            /\ Len(ct_chunks[k]) >= ct_overlap
            /\ Len(ct_chunks[k + 1]) >= ct_overlap
            /\ FirstN(ct_chunks[k + 1], ct_overlap)
                 = LastN(ct_chunks[k], ct_overlap)

\* C10, amended.  The windows start at 0, s, 2s, ...; every chunk of the
\* full length chunk_size, other than the final chunk, is followed by a
\* chunk whose first overlap characters are its own last overlap characters.
\* (A chunk that the end of the text cut short is followed by a shorter
\* chunk that repeats its tail.)
C10_FixedSteppingAndOverlap ==
  (PlainLongText /\ ct_pc \in {"loop", "body", "done"})
    => /\ SteppedWindows(ct_chunk_size - ct_overlap)
       /\ \A k \in 1..(Len(ct_chunks) - 1) :
            Len(ct_chunks[k]) = ct_chunk_size
              => /\ Len(ct_chunks[k + 1]) >= ct_overlap
                 /\ FirstN(ct_chunks[k + 1], ct_overlap)
                      = LastN(ct_chunks[k], ct_overlap)

\* chunk_text has returned four chunks of a text of both letters, each window
\* overlapping the next
C10_Witness ==
  /\ PlainLongText
  /\ ct_pc = "done"
  /\ ct_overlap > 0
  /\ Len(ct_chunks) = 4
  /\ Len(ct_chunks[2]) = ct_chunk_size
  /\ \E i \in 1..Len(ct_text) : ct_text[i] # ct_text[1]

\* ------------------------------------------------------ process_document
\* The bytes a document row was made of, and the file it was made of.
BytesOf(d) == d.file_hash[2]
FileOf(d) == File(d.filename[1], d.filename[2], TRUE, BytesOf(d))
Stored(bytes) == {d \in documents : BytesOf(d) = bytes}

\* The step is a process_document call on file f, with one of the callbacks
\* cbs and whatever collection.add does.
CallsWith(f, cbs) ==
  \E cb \in cbs, add_raises \in BOOLEAN : ProcessDocument(f, cb, add_raises)
Calls(f) == CallsWith(f, Callbacks)

\* C1.  Idempotent ingestion: in any store state, once a call has stored the
\* Document row of a file's bytes, a process_document call on a file with the
\* same bytes (under the same or another name) returns True and adds no
\* document or chunk row, and the store holds exactly one Document row of that
\* fingerprint; no call ever leaves two rows of one fingerprint.
\* (Here and below the file of the call a step completes is ret'.arg.)
C1_IdempotentIngestion ==
  [][/\ \A d1, d2 \in documents' : BytesOf(d1) = BytesOf(d2) => d1 = d2
     /\ ret'.op = "process_document"
          => LET f == ret'.arg
             IN  (f.exists /\ Stored(f.bytes) # {} /\ Calls(f))
                   => /\ ret'.value = TRUE
                      /\ documents' = documents
                      /\ chunks' = chunks
                      /\ Cardinality({d \in documents' :
                                        BytesOf(d) = f.bytes}) = 1]_vars

\* a second call, under another name, on bytes that are stored
C1_Witness ==
  /\ ret.op = "process_document"
  /\ ret.value = TRUE
  /\ ret.log = "already"
  /\ \E d \in documents :
       BytesOf(d) = ret.arg.bytes /\ d.filename # Basename(ret.arg)

NoStats(stats) ==
  /\ stats.total_documents = 0
  /\ stats.total_chunks = 0
  /\ DOMAIN stats.file_types = {}

\* the rows a reset deleted that were made of file f
Forgotten(f) ==
  {d \in forgotten :
     d.file_hash = calculate_file_hash(f) /\ d.filename = Basename(f)}

\* C4.  Full reset: clear_knowledge_base leaves a store whose statistics are
\* 0 documents, 0 chunks and no file types, a get_document_stats right after
\* it returns them, and a later process_document on a file ingested before
\* the reset (and not again since) is not skipped as a duplicate: unless the
\* progress callback raises before the rows are written, it inserts a new
\* Document row, with an id no earlier row had, and all its chunk rows.
C4_FullReset ==
  [][/\ ret'.op = "clear_knowledge_base"
          => ((\E outcome \in ClearOutcomes : ClearKnowledgeBase(outcome))
                => NoStats(Stats(documents', chunks')))
     /\ (ret.op = "clear_knowledge_base" /\ GetDocumentStats)
          => NoStats(ret'.value)
     /\ ret'.op = "process_document"
          => LET f == ret'.arg
                 writes == {cb \in Callbacks : /\ ~CallbackRaises(cb, 1)
                                                /\ ~CallbackRaises(cb, 2)}
             IN  (f.exists /\ Forgotten(f) # {} /\ Stored(f.bytes) = {})
                   => /\ Calls(f) => ret'.log # "already"
                      /\ CallsWith(f, writes)
                           => \E old \in Forgotten(f) :
                                LET new == DocumentRow(seq_documents + 1, f,
                                                       old.chunk_count)
                                    rows == {c \in chunks' :
                                               c.document_id = new.id}
                                IN  /\ documents' = documents \cup {new}
                                    /\ \A d \in forgotten \cup documents :
                                         d.id < new.id
                                    /\ chunks' = chunks \cup rows
                                    /\ Cardinality(rows) = old.chunk_count
                                    /\ old.chunk_count > 0]_vars

\* a file ingested, forgotten by a reset, and ingested again under a new id
C4_Witness ==
  /\ ret.op = "process_document"
  /\ ret.value = TRUE
  /\ ret.log = "ok"
  /\ \E old \in forgotten, new \in documents :
       /\ new.file_hash = calculate_file_hash(ret.arg)
       /\ new.filename = Basename(ret.arg)
       /\ old.file_hash = new.file_hash
       /\ old.filename = new.filename
       /\ old.id < new.id
       /\ \E c \in chunks : c.document_id = new.id

\* what the chunker makes of the file a row was made of
ProducedChunks(d) ==
  chunk_text(ExtractText(FileOf(d)).text, ScaledChunkSize, ScaledOverlap).chunks

\* C5.  In every state the completed calls reach, the chunk rows of every
\* Document row carry exactly the indices 0..chunk_count-1, each once, and
\* are in the order the chunker produced them: the row of index i holds the
\* i-th chunk, and the row ids grow with the index.
C5_ChunkIndicesContiguous ==
  \A d \in documents :
    LET rows == {c \in chunks : c.document_id = d.id}
    IN  /\ {c.chunk_index : c \in rows} = 0..(d.chunk_count - 1)
        /\ Cardinality(rows) = d.chunk_count
        /\ d.chunk_count = Len(ProducedChunks(d))
        /\ \A c \in rows : c.content = ProducedChunks(d)[c.chunk_index + 1]
        /\ \A c1, c2 \in rows : c1.chunk_index < c2.chunk_index => c1.id < c2.id

\* two documents in the store, one of them of three chunks or more
C5_Witness ==
  /\ Cardinality(documents) = 2
  /\ \E d \in documents :
       /\ d.chunk_count >= 3
       /\ Cardinality({c \in chunks : c.document_id = d.id}) = d.chunk_count

\* C6.  A failed ingestion is reported by value and leaves no trace: when the
\* file is missing, or the call gets to extract its text and the extraction
\* raises or the text is empty after trimming, process_document returns
\* False, and the documents table, the chunks table and the semantic index
\* are as before, with no row of the file's fingerprint, so that a later
\* ingestion of the same bytes finds no duplicate.
C6_FailedIngestionLeavesNoTrace ==
  [][ret'.op = "process_document"
       => LET f == ret'.arg
              ex == ExtractText(f)
          IN  (/\ \/ ~f.exists
                  \/ /\ Stored(f.bytes) = {}
                     /\ ex.supported
                     /\ (ex.raises \/ Strip(ex.text) = << >>)
               /\ Calls(f))
                => /\ ret'.value = FALSE
                   /\ documents' = documents
                   /\ chunks' = chunks
                   /\ collection' = collection
                   /\ f.exists => \A d \in documents' :
                                   BytesOf(d) # f.bytes]_vars

\* a file of blank text refused while the store holds documents
C6_Witness ==
  /\ ret.op = "process_document"
  /\ ret.value = FALSE
  /\ ret.log = "no_text"
  /\ Strip(ExtractText(ret.arg).text) = << >>
  /\ documents # {}
  /\ chunks # {}

\* the suffix is none of .pdf, .docx, .txt in any case of the letters
UnsupportedSuffix(f) ==
  PyLower(f.suffix) \notin {SuffixPdf, SuffixDocx, SuffixTxt}

\* C7, as stated.  For every existing file of an unsupported suffix and every
\* store state, process_document returns False and persists no document or
\* chunk row.
C7_UnsupportedReturnsFalse ==
  [][ret'.op = "process_document"
       => LET f == ret'.arg
          IN  (f.exists /\ UnsupportedSuffix(f) /\ Calls(f))
                => /\ ret'.value = FALSE
                   /\ documents' = documents
                   /\ chunks' = chunks]_vars

\* C7, amended.  For every existing file of an unsupported suffix and every
\* store state, process_document persists no document or chunk row and adds
\* nothing to the index; it returns False when no Document row holds the
\* file's fingerprint, and True (the file counts as ingested already) when
\* one does.
C7_UnsupportedPersistsNothing ==
  [][ret'.op = "process_document"
       => LET f == ret'.arg
          IN  (f.exists /\ UnsupportedSuffix(f) /\ Calls(f))
                => /\ ret'.value = (Stored(f.bytes) # {})
                   /\ documents' = documents
                   /\ chunks' = chunks
                   /\ collection' = collection]_vars

\* an unsupported file reported as such while the store holds documents
C7_Witness ==
  /\ ret.op = "process_document"
  /\ ret.arg.exists
  /\ UnsupportedSuffix(ret.arg)
  /\ ret.value = FALSE
  /\ ret.log = "unsupported"
  /\ documents # {}

\* ------------------------------------------------------ search_knowledge

\* C3.  Retrieval fallback: whenever the semantic index is not configured, or
\* its query raises, or its response is malformed, search_knowledge returns
\* the keyword-matched chunks of the relational store, each with
\* relevance_score exactly 0.5.
C3_FallbackIsKeywordSearch ==
  (/\ ret.op = "search_knowledge"
   /\ (~chroma_client \/ ret.log = "semantic_error"))
    => /\ ret.value = KeywordSearch(ret.arg.query, ret.arg.max_results)
       /\ \A i \in 1..Len(ret.value) :
            ret.value[i].relevance_score = KeywordScore

\* ------------------------------------------------------ get_document_stats
RECURSIVE SumOver(_, _)
\* the sum of count[k] over the keys k
SumOver(count, keys) ==
  IF keys = {} THEN 0
  ELSE LET k == CHOOSE k \in keys : TRUE
       IN  count[k] + SumOver(count, keys \ {k})

\* the sum of chunk_count over the document rows
SumChunkCount(docs) == SumOver([d \in docs |-> d.chunk_count], docs)

\* What get_document_stats() would report now, and after the step.
StatsNow == Stats(documents, chunks)
StatsNext == Stats(documents', chunks')

\* C11.  Stats accuracy: total_documents is the number of distinct
\* fingerprints successfully ingested since the last reset, so it is 0 after
\* clear_knowledge_base, it grows by one with each process_document call
\* that returns True for a fingerprint not ingested since the reset, and no
\* other call changes it; what get_document_stats returns has file_types
\* counts that sum to total_documents and a total_chunks that is the sum of
\* chunk_count over the document rows.
C11_StatsCountSuccessfulIngestions ==
  [][/\ ret'.op = "process_document"
          => LET f == ret'.arg
             IN  Calls(f)
                   => StatsNext.total_documents
                        = StatsNow.total_documents
                            + (IF ret'.value = TRUE /\ Stored(f.bytes) = {}
                                 THEN 1 ELSE 0)
     /\ ret'.op = "clear_knowledge_base" => StatsNext.total_documents = 0
     /\ ret'.op = "get_document_stats"
          => /\ ret'.value = StatsNow
             /\ StatsNext = StatsNow
             /\ SumOver(ret'.value.file_types, DOMAIN ret'.value.file_types)
                  = ret'.value.total_documents
             /\ ret'.value.total_chunks = SumChunkCount(documents)]_vars

\* -------------------------------------------------------- search_knowledge
\* C12.  Every list search_knowledge returns, on the semantic path and on
\* the keyword path, is ordered by non-increasing relevance_score.
C12_ResultsOrderedByScore ==
  ret.op = "search_knowledge"
    => \A i, j \in 1..Len(ret.value) :
         i < j => ret.value[i].relevance_score >= ret.value[j].relevance_score

\* C13.  Two-path policy: search_knowledge runs the keyword query if and
\* only if there is no semantic index or the semantic query failed; when the
\* semantic query succeeds its results are the answer, also when there are
\* none, and no keyword result is among them.
C13_TwoPathPolicy ==
  ret.op = "search_knowledge"
    => /\ ret.sql = (~chroma_client \/ ret.log = "semantic_error")
       /\ (chroma_client /\ ret.log = "")
            => /\ Len(ret.value) <= ret.arg.max_results
               /\ \A i \in 1..Len(ret.value) :
                    \E e \in collection, distance \in Distances :
                      /\ ret.value[i].content = e.document
                      /\ ret.value[i].filename = e.metadata.filename
                      /\ ret.value[i].chunk_index = e.metadata.chunk_index
                      /\ ret.value[i].relevance_score = One - distance

\* a semantic query that succeeded with no entry is the answer, although
\* the keyword query would have found rows
C13_Witness ==
  /\ ret.op = "search_knowledge"
  /\ chroma_client
  /\ ret.log = ""
  /\ ~ret.sql
  /\ ret.value = << >>
  /\ MatchingRows(ret.arg.query) # {}

\* ------------------------------------------------------- progress_callback
\* C16.  Progress reporting is purely observational: for every file and
\* store state, what process_document returns and what it leaves in the
\* documents table, the chunks table and the semantic index with a progress
\* callback, whatever the callback does, is what it returns and leaves with
\* none.
C16_CallbackIsObservational ==
  [][ret'.op = "process_document"
       => LET f == ret'.arg
          IN  \A cb \in Callbacks, add_raises \in BOOLEAN :
                ProcessDocument(f, cb, add_raises)
                  => ProcessDocument(f, NoCallback, add_raises)]_vars

\* C17.  Document rows are write-once: a process_document call that finds
\* its fingerprint in the table, every process_document call that fails,
\* and every search_knowledge and get_document_stats call leave the rows of
\* both tables as they were, and only clear_knowledge_base removes a row.
C17_RowsAreWriteOnce ==
  [][/\ ret'.op = "process_document"
          => LET f == ret'.arg
             IN  (Calls(f) /\ (Stored(f.bytes) # {} \/ ret'.value = FALSE))
                   => documents' = documents /\ chunks' = chunks
     /\ ret'.op \in {"search_knowledge", "get_document_stats"}
          => documents' = documents /\ chunks' = chunks
     /\ ret'.op # "clear_knowledge_base"
          => documents \subseteq documents' /\ chunks \subseteq chunks']_vars

\* ------------------------------------------------------------- concurrency
\* the chunk rows of document row d among rows
ChunksOf(d, rows) == {c \in rows : c.document_id = d.id}

\* A step leaves in the committed tables each document row with all of its
\* chunk rows, and a process_document call that ends inside its transaction
\* leaves the committed tables as they were.
CommitsAreWhole ==
  /\ \A d \in documents' : Cardinality(ChunksOf(d, chunks')) = d.chunk_count
  /\ (wr.op = "process_document" /\ tx.open /\ wr' = NoCall)
       => documents' = documents /\ chunks' = chunks /\ tx' = NoTx

\* C14.  Ingestion atomicity: the document row and its chunk rows become
\* visible to other connections in one commit, so no statement of another
\* connection, search_knowledge's SELECT among them, and no
\* get_document_stats call that runs while documents are ingested reads a
\* document row with chunk_count = n > 0 together with fewer than n of its
\* chunk rows; an ingestion that fails before the commit leaves neither the
\* document row nor a chunk row.
C14_IngestionIsAtomic ==
  [][/\ CommitsAreWhole
     /\ (StAt("file_types") /\ rd' = NoCall
           /\ "clear_knowledge_base" \notin rd.commits)
          => \A d \in rd.seen_documents \cup documents :
               Cardinality(ChunksOf(d, rd.seen_chunks)) >= d.chunk_count]_vars

\* C15.  Reset atomicity: clear_knowledge_base removes the rows of both
\* tables in one transaction, so the tables other connections read lose all
\* their rows at once, and no get_document_stats call that runs during a
\* reset reads document rows and no chunk row, or chunk rows and no
\* document row.
C15_ResetIsAtomic ==
  [][/\ (wr.op = "clear_knowledge_base"
           /\ (documents' # documents \/ chunks' # chunks))
          => documents' = {} /\ chunks' = {}
     /\ (StAt("file_types") /\ rd' = NoCall
           /\ "process_document" \notin rd.commits)
          => ((rd.seen_documents \cup documents) = {}) = (rd.seen_chunks = {})]_vars

\* ------------------------------------------------------------- dedup gate
\* the statements that extract, chunk, report progress or write the index
WorkSteps == {"callback1", "extract", "callback2", "chunk", "callback3", "index"}

\* C20.  Dedup gate ordering: in every process_document call the lookup of
\* the fingerprint comes before any extraction, chunking, progress callback
\* and index write, and when the lookup finds the fingerprint the call ends
\* there, with none of those steps.
C20_LookupBeforeWork ==
  [][(wr.op = "process_document" /\ wr' # wr)
       => /\ wr.pc \in WorkSteps => wr.existing = "no_row"
          /\ (wr.pc = "lookup"
                /\ ExistingDocument(calculate_file_hash(wr.f)) # {})
               => /\ wr' = NoCall
                  /\ ret' = Returned("process_document", wr.f, TRUE, "already")
                  /\ collection' = collection
          /\ wr'.op = "process_document"
               => (wr'.pc \in WorkSteps => wr'.existing = "no_row")]_vars

\* a call has ended at the lookup, on a document that is stored and indexed
C20_Witness ==
  /\ wr = NoCall
  /\ ret.op = "process_document"
  /\ ret.log = "already"
  /\ Stored(ret.arg.bytes) # {}
  /\ collection # {}

\* ------------------------------------------------------- generate_response
\* the request raises, times out or returns a status that is not 200
RequestFails(endpoint) ==
  \/ endpoint.kind \in {"raises", "timeout"}
  \/ endpoint.kind = "status" /\ endpoint.status_code # StatusOk

\* C18 as stated.  Generation failures are values: when the request raises,
\* times out or returns a non-200 status, generate_response raises nothing,
\* leaves conversation_history as it was and returns the fixed fallback
\* string, the same one for every such failure.
C18_OneFallbackString ==
  [][(ret'.op = "generate_response" /\ RequestFails(ret'.endpoint))
       => /\ conversation_history' = conversation_history
          /\ (ret.op = "generate_response" /\ RequestFails(ret.endpoint))
               => ret'.value = ret.value]_vars

\* C18, amended.  When the request raises, times out or returns a non-200
\* status, generate_response raises nothing, leaves conversation_history as
\* it was and returns a fixed fallback string: one for a request that
\* raises or times out, another for a non-200 status.
C18_FailuresAreFallbacks ==
  [][(ret'.op = "generate_response" /\ RequestFails(ret'.endpoint))
       => /\ conversation_history' = conversation_history
          /\ ret'.value = IF ret'.endpoint.kind = "status"
                            THEN FallbackGenerate
                            ELSE FallbackProcess]_vars

\* a request has timed out on a conversation of one turn or more
C18_Witness ==
  /\ ret.op = "generate_response"
  /\ ret.endpoint.kind = "timeout"
  /\ ret.value = FallbackProcess
  /\ conversation_history # << >>

WrittenDocument == {d \in documents : d.id = wr.document_id}
WrittenChunks == {c \in chunks : c.document_id = wr.document_id}

\* The keyword path (lines 343-368) returns the chunk row c for the query
\* that is the chunk's own text.
KeywordFinds(c) ==
  \E i \in 1..Len(KeywordSearch(c.content, DefaultMaxResults)) :
    KeywordSearch(c.content, DefaultMaxResults)[i] = KeywordResult(c)

\* C21.  Best-effort indexing: when process_document has committed its rows
\* and reached the indexing of lines 276-294, and the index takes none of
\* the chunks (there is no Chroma client, the collection is gone, or
\* collection.add raises), the call returns True all the same, the document
\* row and its chunk rows are the committed rows they were, and the keyword
\* path returns each of those chunks.
C21_BestEffortIndexing ==
  [][(PdAt("index") /\ wr' = NoCall
        /\ \A e \in collection' : e.metadata.document_id # wr.document_id)
       => /\ ret' = Returned("process_document", wr.f, TRUE, "ok")
          /\ documents' = documents
          /\ chunks' = chunks
          /\ WrittenDocument # {}
          /\ Cardinality(WrittenChunks) = Len(PdChunks(wr.f).chunks)
          /\ \A c \in WrittenChunks : KeywordFinds(c)]_vars

\* a call has returned True for a document of three chunks with a Chroma
\* client whose collection holds nothing of it
C21_Witness ==
  /\ ret.op = "process_document"
  /\ ret.value = TRUE
  /\ ret.log = "ok"
  /\ wr = NoCall
  /\ chroma_client
  /\ collection_live
  /\ collection = {}
  /\ Cardinality(chunks) = 3
  /\ \A c \in chunks : KeywordFinds(c)

\* ---------------------------------------------------- keyword path matching
\* token occurs in s at position p (from 1)
OccursAt(s, token, p) ==
  /\ p + Len(token) - 1 <= Len(s)
  /\ \A k \in 1..Len(token) : s[p + k - 1] = token[k]

RECURSIVE ContainsInOrder(_, _)
\* s contains the tokens as substrings that do not overlap, in their order
ContainsInOrder(s, tokens) ==
  \/ tokens = << >>
  \/ \E p \in 1..Len(s) :
       /\ OccursAt(s, Head(tokens), p)
       /\ ContainsInOrder(SubSeq(s, p + Len(Head(tokens)), Len(s)),
                          Tail(tokens))

\* the chunk rows whose lower-cased content contains the lower-cased tokens
\* of the query
RowsWithTokens(query) ==
  {c \in chunks : ContainsInOrder(PyLower(c.content), Split(PyLower(query)))}

\* C22.  Keyword path matching: a search_knowledge call that takes the
\* keyword path alone returns the chunks whose lower-cased content contains
\* all lower-cased whitespace-delimited tokens of the query as substrings
\* that do not overlap, in the order of the query: the first max_results of
\* them in ascending order of chunk-row id, and no other chunk.
C22_KeywordPathMatching ==
  [][(ret'.op = "search_knowledge" /\ ret' # ret /\ ret'.sql
        /\ documents' = documents /\ chunks' = chunks)
       => LET rows == Limit(OrderById(RowsWithTokens(ret'.arg.query)),
                            ret'.arg.max_results)
          IN  ret'.value = [i \in 1..Len(rows) |-> KeywordResult(rows[i])]]_vars

\* ----------------------------------------------------------- no empty chunks
\* every chunk row stored has content that is non-empty after trimming
StoredChunksNonEmpty == \A c \in chunks : Strip(c.content) # << >>

\* C23.  No empty chunks: for every text, the empty and the whitespace-only
\* ones among them, every chunk chunk_text returns is non-empty after
\* trimming, and every chunk row stored has content that is non-empty after
\* trimming.
C23_NoEmptyChunks ==
  /\ ct_pc = "done" => \A i \in 1..Len(ct_chunks) : Strip(ct_chunks[i]) # << >>
  /\ StoredChunksNonEmpty

\* ------------------------------------------------------- semantic index keys
\* Every chunk ever ingested, as its document row and its chunk_index: the
\* rows of the table and the rows resets have deleted.
IngestedChunks ==
  UNION {{<<d, i>> : i \in 0..(d.chunk_count - 1)} :
           d \in documents \cup forgotten}

\* the key line 278 gives the chunk
KeyOf(x) == ChunkKey(x[1].id, x[2])

\* C24.  Semantic index keys identify chunks over the whole history: when
\* process_document inserts a document, after any sequence of
\* process_document and clear_knowledge_base calls, its id is the id of no
\* document ingested before, deleted by a reset or not, no two distinct
\* chunks ever ingested have the same key "{document_id}_{chunk_index}",
\* and the keys of the new chunks are the keys of no entry the index holds.
C24_IndexKeysUnique ==
  [][(ret'.op = "process_document" /\ documents' # documents)
       => /\ \A new \in documents' \ documents :
               /\ \A d \in documents \cup forgotten : d.id # new.id
               /\ \A e \in collection :
                    \A i \in 0..(new.chunk_count - 1) :
                      e.id # ChunkKey(new.id, i)
          /\ \A x, y \in IngestedChunks' : x # y => KeyOf(x) # KeyOf(y)]_vars

\* a document is ingested after a reset that deleted another one and left
\* its entries in the index, and is indexed beside them
C24_Witness ==
  /\ ret.op = "process_document"
  /\ ret.log = "ok"
  /\ forgotten # {}
  /\ \E d \in documents, e \in collection, old \in collection :
       /\ d.file_hash = calculate_file_hash(ret.arg)
       /\ e.metadata.document_id = d.id
       /\ old.metadata.document_id \in {f.id : f \in forgotten}
       /\ old.metadata.document_id < d.id

\* ------------------------------------- the result agrees with the store
\* The result of the step, a process_document call with one of the callbacks
\* cbs, is True exactly when the table holds a row with the fingerprint of
\* the file as the call returns (a file that does not exist has none).
ResultAgrees(cbs) ==
  (ret'.op = "process_document" /\ CallsWith(ret'.arg, cbs))
    => (ret'.value = TRUE
          <=> /\ ret'.arg.exists
              /\ \E d \in documents' :
                   d.file_hash = calculate_file_hash(ret'.arg))

\* C25.  The boolean result of process_document agrees with the store: the
\* call returns True if and only if, when it returns, a Document row with
\* the file's fingerprint exists, so that a False result never leaves a
\* newly committed Document row behind.
C25_ResultAgreesWithStore == [][ResultAgrees(Callbacks)]_vars

\* ------------------------------------------------------ index within store
\* every entry of the semantic index has its chunk row: the same document
\* id, chunk index and text
IndexWithinStore ==
  \A e \in collection :
    \E c \in chunks : /\ c.document_id = e.metadata.document_id
                      /\ c.chunk_index = e.metadata.chunk_index
                      /\ c.content = e.document

\* C26.  Index-within-store invariant: after every completed
\* process_document, search_knowledge and clear_knowledge_base call, the
\* index operations failing or not, every entry of the semantic index
\* corresponds to an existing chunk row with the same document id, chunk
\* index and text, and what the semantic path of search_knowledge returns is
\* the text of chunk rows that exist, never of a deleted document.
C26_IndexWithinStore ==
  [][/\ IndexWithinStore'
     /\ (ret'.op = "search_knowledge" /\ ~ret'.sql
           /\ documents' = documents /\ chunks' = chunks)
          => \A i \in 1..Len(ret'.value) :
               \E c \in chunks :
                 /\ c.content = ret'.value[i].content
                 /\ c.chunk_index = ret'.value[i].chunk_index
                 /\ \E d \in documents :
                      d.id = c.document_id
                        /\ d.filename = ret'.value[i].filename]_vars

\* -------------------------------------- fingerprint under interleaving
\* at most one row of the documents table has any one fingerprint
FingerprintUnique ==
  \A d, e \in documents : d.file_hash = e.file_hash => d = e

\* the chunk rows are the rows of the documents of the table, as many as
\* each row counts
ChunksOfStoredOnly ==
  /\ \A c \in chunks : \E d \in documents : d.id = c.document_id
  /\ \A d \in documents : Cardinality(ChunksOf(d, chunks)) = d.chunk_count

\* C27.  Fingerprint uniqueness under interleaving: with process_document
\* calls on files with identical bytes running concurrently, in every
\* reachable state the documents table holds at most one row with that
\* fingerprint, the chunks table holds the chunk rows of that document
\* only, and every one of the calls that has returned reports success.
C27_FingerprintUniqueUnderRace ==
  /\ FingerprintUnique
  /\ ChunksOfStoredOnly
  /\ \A w \in Workers : workers[w].op = "returned" => workers[w].value = TRUE

\* ---------------------------------------------------------- no text is lost
\* C28.  No text is lost by chunking: for every text longer than chunk_size
\* and every 0 <= overlap < chunk_size, the chunks chunk_text returns are
\* the trimmed windows text[a:b] of the text, each of at most chunk_size
\* characters, and every position of the text that holds a non-whitespace
\* character lies in at least one of those windows.
C28_NoTextLost ==
  (ct_pc = "done" /\ Len(ct_text) > ct_chunk_size)
    => LET w == ChunkWindows(ct_text, ct_chunk_size, ct_overlap)
       IN  /\ Len(w) = Len(ct_chunks)
           /\ \A i \in 1..Len(w) :
                /\ ct_chunks[i] = Strip(SubSeq(ct_text, w[i][1] + 1, w[i][2]))
                /\ Len(ct_chunks[i]) <= ct_chunk_size
           /\ \A p \in 0..(Len(ct_text) - 1) :
                ct_text[p + 1] \notin Whitespace
                  => \E i \in 1..Len(w) : w[i][1] <= p /\ p < w[i][2]

====
